---------------------------- MODULE Spec2Model ----------------------------
(***************************************************************************)
(* SHIELD engagement simulation (src/script.js): salvo generation, trial   *)
(* degradation, the detect / classify / engage loop over a shared          *)
(* interceptor inventory, and the Monte Carlo loop around it.              *)
(*                                                                         *)
(* Probabilities and uniform draws are fixed-point hundredths: the number  *)
(* x of the program is the integer 100 * x, so 1.0 is One.                 *)
(***************************************************************************)
EXTENDS Integers, Sequences, FiniteSets, TLC

(* ------------------------------ bounds -------------------------------- *)

\* largest population (warheads + decoys) of a configuration
MaxObjects == 3
\* largest shotsPerTarget / maxShotsPerTarget
MaxShots == 2
\* largest nInventory
MaxInventory == 2

\* largest nTrials
MaxTrials == 2
\* longest array handed to percentile on its own, and its largest entry
MaxLen == 5
\* largest population handed to the salvo generator on its own
MaxSalvo == 4

\* 1.0 in hundredths
One == 100

\* let realWarheadsConst = null
Null == -1

\* configured probabilities and degrade factors
Probs == {0, 50, One}
\* values randUniform() returns (0 <= u < 1): the smallest and the largest
Uniforms == {0, 99}

Min(a, b) == IF a <= b THEN a ELSE b
Max(a, b) == IF a >= b THEN a ELSE b

(* ------------------------------ helpers ------------------------------- *)

clamp01(x) == Max(0, Min(One, x))

\* faulty variant of bernoulli: <= for <
bernoulliInclusive(p, u) == u <= p

\* bernoulli(p) with the value u that randUniform() returned
bernoulli(p, u) == u < p

\* one iteration of the Fisher-Yates loop: i is the 0-based index
\* faulty variant of ShuffleStep: arr[i] takes arr[j], arr[j] is left as it was
ShuffleStepOverwrite(arr, i, u) ==
    LET j == (u * (i + 1)) \div One
    IN  [arr EXCEPT ![i + 1] = arr[j + 1]]

ShuffleStep(arr, i, u) ==
    LET j == (u * (i + 1)) \div One
    IN  [arr EXCEPT ![i + 1] = arr[j + 1], ![j + 1] = arr[i + 1]]

RECURSIVE ShuffleLoop(_, _, _)
ShuffleLoop(arr, i, us) ==
    IF i > 0 THEN ShuffleLoop(ShuffleStep(arr, i, us[i]), i - 1, us)
    ELSE arr

\* shuffle(arr), us[i] being the draw of iteration i
shuffle(arr, us) == ShuffleLoop(arr, Len(arr) - 1, us)

(* ----------------------------- statistics ------------------------------ *)

\* a number of the summary: num / den, or the not-a-number value
Num(n, dn) == [nan |-> FALSE, num |-> n, den |-> dn]
NaN == [nan |-> TRUE, num |-> 0, den |-> 1]

RECURSIVE Sum(_)
Sum(arr) == IF arr = <<>> THEN 0 ELSE arr[1] + Sum(Tail(arr))

mean(arr) == IF Len(arr) = 0 THEN NaN ELSE Num(Sum(arr), Len(arr))

Ascending(a, b) == a < b

\* faulty variant of percentile: the ranks are read from the array as given
percentileUnsorted(arr, p) ==
    IF Len(arr) = 0 THEN NaN
    ELSE LET idx100 == p * (Len(arr) - 1)
             lo == idx100 \div 100
             hi == IF idx100 % 100 = 0 THEN lo ELSE lo + 1
             w100 == idx100 - 100 * lo
         IN  IF lo = hi THEN Num(arr[lo + 1], 1)
             ELSE Num(arr[lo + 1] * (100 - w100) + arr[hi + 1] * w100, 100)

\* percentile(arr, p) for an integer p: 100 * idx is p * (n - 1)
percentile(arr, p) ==
    IF Len(arr) = 0 THEN NaN
    ELSE LET sorted == SortSeq(arr, Ascending)
             idx100 == p * (Len(sorted) - 1)
             lo == idx100 \div 100
             hi == IF idx100 % 100 = 0 THEN lo ELSE lo + 1
             w100 == idx100 - 100 * lo
         IN  IF lo = hi THEN Num(sorted[lo + 1], 1)
             ELSE Num(sorted[lo + 1] * (100 - w100) + sorted[hi + 1] * w100, 100)

\* x / k for a count k > 0
Over(x, k) == IF x.nan THEN NaN ELSE Num(x.num, x.den * k)

(* --------------------------- salvo generator --------------------------- *)

Target(k, n) == [kind |-> k, id |-> <<k, n>>]

\* the population before the shuffle: warheads W0.., then decoys D0..
Population(rw, dc) ==
    [n \in 1..(rw + dc) |->
        IF n <= rw THEN Target("warhead", n - 1)
        ELSE Target("decoy", n - rw - 1)]

\* faulty variant of generateTargets: realWarheads without the MIRVs
generateTargetsPerMissile(p, us) ==
    LET rw == p.nMissiles * p.mirvsPerMissile
        dc == rw * p.decoysPerWarhead
    IN  [targets |-> shuffle(Population(rw, dc), us),
         realWarheads |-> p.nMissiles,
         decoys |-> dc]

generateTargets(p, us) ==
    LET rw == p.nMissiles * p.mirvsPerMissile
        dc == rw * p.decoysPerWarhead
    IN  [targets |-> shuffle(Population(rw, dc), us),
         realWarheads |-> rw,
         decoys |-> dc]

(* --------------------------- classification ---------------------------- *)

classifyTarget(tgt, p, u) ==
    IF tgt.kind = "warhead" THEN bernoulli(p.pClassifyWarhead, u)
    ELSE bernoulli(p.pFalseAlarmDecoy, u)

(* ------------------------- trial degradation --------------------------- *)

\* faulty variant of applyTrialDegradation: one factor, the detection one, for all
applyTrialDegradationOneFactor(p, u) ==
    IF bernoulli(p.pSystemUp, u)
    THEN [pDetectTrack_trial |-> p.pDetectTrack,
          pkWarhead_trial |-> p.pkWarhead,
          pkDecoy_trial |-> p.pkDecoy,
          systemUp |-> TRUE]
    ELSE [pDetectTrack_trial |->
              clamp01((p.pDetectTrack * p.detectDegradeFactor) \div One),
          pkWarhead_trial |-> clamp01((p.pkWarhead * p.detectDegradeFactor) \div One),
          pkDecoy_trial |-> clamp01((p.pkDecoy * p.detectDegradeFactor) \div One),
          systemUp |-> FALSE]

applyTrialDegradation(p, u) ==
    IF bernoulli(p.pSystemUp, u)
    THEN [pDetectTrack_trial |-> p.pDetectTrack,
          pkWarhead_trial |-> p.pkWarhead,
          pkDecoy_trial |-> p.pkDecoy,
          systemUp |-> TRUE]
    ELSE [pDetectTrack_trial |->
              clamp01((p.pDetectTrack * p.detectDegradeFactor) \div One),
          pkWarhead_trial |-> clamp01((p.pkWarhead * p.pkDegradeFactor) \div One),
          pkDecoy_trial |-> clamp01((p.pkDecoy * p.pkDegradeFactor) \div One),
          systemUp |-> FALSE]


(* ----------------------------- engagement ------------------------------ *)

\* the parameters runOneTrial passes to engageTarget
engageParams(p, deg) ==
    [p EXCEPT !.pkWarhead = deg.pkWarhead_trial, !.pkDecoy = deg.pkDecoy_trial]

\* faulty variant of Pk: the kind the classifier gave, warhead for every
\* engaged object
PkByClassification(tgt, ep) == ep.pkWarhead

\* faulty variant of Pk: the two kinds swapped
PkSwapped(tgt, ep) == IF tgt.kind = "warhead" THEN ep.pkDecoy ELSE ep.pkWarhead

\* pk of the engaged object
Pk(tgt, ep) == IF tgt.kind = "warhead" THEN ep.pkWarhead ELSE ep.pkDecoy

\* faulty variant of NoShotOutcome: an interceptor is charged all the same
NoShotOutcomeCharged(inv) ==
    [killed |-> FALSE, shotsFired |-> 0, inventoryRemaining |-> inv - 1]

\* faulty variant of NoShotOutcome: reports a kill
NoShotOutcomeKilled(inv) ==
    [killed |-> TRUE, shotsFired |-> 0, inventoryRemaining |-> inv]

\* return of an engagement that fires nothing
NoShotOutcome(inv) ==
    [killed |-> FALSE, shotsFired |-> 0, inventoryRemaining |-> inv]

\* faulty variant of BarrageAlloc: not limited by the inventory
BarrageAllocUnclamped(ep, inv) == ep.shotsPerTarget

\* const alloc = Math.min(shotsPerTarget, inventory)
BarrageAlloc(ep, inv) == Min(ep.shotsPerTarget, inv)

\* faulty variant of BarrageOutcome: a kill is charged one shot
BarrageOutcomeKillSaves(k, a, inv) ==
    LET used == IF k THEN 1 ELSE a
    IN  [killed |-> k, shotsFired |-> used, inventoryRemaining |-> inv - used]

\* return of the barrage branch
BarrageOutcome(k, a, inv) ==
    [killed |-> k, shotsFired |-> a, inventoryRemaining |-> inv - a]

\* faulty variant of SlsCap: not limited by the inventory
SlsCapUnclamped(ep, inv) == ep.maxShotsPerTarget

\* const cap = Math.min(maxShotsPerTarget, inventory)
SlsCap(ep, inv) == Min(ep.maxShotsPerTarget, inv)

\* faulty variant of SlsOutcome: a miss gives its shots back
SlsOutcomeMissFree(k, fired, inv) ==
    [killed |-> k, shotsFired |-> fired,
     inventoryRemaining |-> IF k THEN inv - fired ELSE inv]

\* both returns of the shoot-look-shoot branch
SlsOutcome(k, fired, inv) ==
    [killed |-> k, shotsFired |-> fired, inventoryRemaining |-> inv - fired]

(* ------------------------------- state --------------------------------- *)

VARIABLES
    params,                  \* the configuration record
    pc,                      \* position in runMonteCarlo / runOneTrial / engageTarget
    targets, realWarheads,   \* generateTargets' return
    d,                       \* applyTrialDegradation's return
    inventory,
    penetratedRealWarheads, interceptedRealWarheads,
    detectedObjects, detectedRealWarheads,
    truePositives, falseNegatives, falsePositives,
    shotsTotal, shotsAtTrueWarheads, shotsAtDecoys,
    idx,                     \* 1-based position of the object loop in targets
    detected, classifiedAsWarhead,
    alloc, cap, s, killed, shotsFired, canReengage,   \* engageTarget's locals
    hits,                    \* outcomes of bernoulli(pk) in this engagement, in order
    res,                     \* engageTarget's return
    r,                       \* runOneTrial's return
    t,                       \* runMonteCarlo's loop counter
    penReal, intReal, detObj, detReal, tp, fn, fp,
    shotsTot, shotsW, shotsD, invLeft, systemUpFlags,
    realWarheadsConst,
    mc,                      \* runMonteCarlo's return
    values, percent,         \* the arguments of a call of percentile
    result                   \* percentile's return

population == <<targets, realWarheads>>
outputs == <<penetratedRealWarheads, interceptedRealWarheads>>
detection == <<detectedObjects, detectedRealWarheads>>
classification == <<truePositives, falseNegatives, falsePositives>>
shots == <<shotsTotal, shotsAtTrueWarheads, shotsAtDecoys>>
counters == <<outputs, detection, classification, shots>>
object == <<detected, classifiedAsWarhead>>
engagement == <<alloc, cap, s, killed, shotsFired, canReengage, hits, res>>
trial == <<population, d, inventory, counters, idx, object, engagement, r>>

series == <<penReal, intReal, detObj, detReal, tp, fn, fp,
            shotsTot, shotsW, shotsD, invLeft, systemUpFlags>>
montecarlo == <<t, series, realWarheadsConst, mc>>

percentileCall == <<values, percent, result>>

vars == <<params, pc, trial, montecarlo, percentileCall>>

(* --------------------------- configurations ---------------------------- *)

\* <<nMissiles, mirvsPerMissile, decoysPerWarhead>>: one missile's load, and the
\* whole population, within MaxObjects objects
Salvos ==
    {sv \in (0..MaxObjects) \X (1..MaxObjects) \X (0..MaxObjects) :
        /\ sv[2] * (1 + sv[3]) <= MaxObjects
        /\ sv[1] * sv[2] * (1 + sv[3]) <= MaxObjects}

\* The configurations explored. The detection probability takes every value of
\* Probs; the classifier's true-positive rate, the kill probability against
\* warheads and the system-up probability are all 0.5 or all 1 (q); the other
\* rates are 0.5. Both shot limits are spt: each doctrine reads only its own.

Configs ==
    {[nMissiles |-> sv[1], mirvsPerMissile |-> sv[2], decoysPerWarhead |-> sv[3],
      pDetectTrack |-> pd, pClassifyWarhead |-> q, pFalseAlarmDecoy |-> 50,
      doctrineMode |-> dm, shotsPerTarget |-> spt, maxShotsPerTarget |-> spt,
      pReengage |-> 50, pkWarhead |-> q, pkDecoy |-> 50,
      nInventory |-> ni, nTrials |-> 1,
      pSystemUp |-> q, detectDegradeFactor |-> 50, pkDegradeFactor |-> 50] :
        sv \in Salvos, pd \in Probs, q \in {50, One}, dm \in {"barrage", "sls"},
        spt \in 0..MaxShots, ni \in 0..MaxInventory}

NoResult ==
    [realWarheads |-> 0, penetratedRealWarheads |-> 0, interceptedRealWarheads |-> 0,
     detectedObjects |-> 0, detectedRealWarheads |-> 0,
     truePositives |-> 0, falseNegatives |-> 0, falsePositives |-> 0,
     shotsTotal |-> 0, shotsAtTrueWarheads |-> 0, shotsAtDecoys |-> 0,
     inventoryRemaining |-> 0, systemUp |-> FALSE]

\* engageTarget's return while no call is under way
NoOutcome == [killed |-> FALSE, shotsFired |-> 0, inventoryRemaining |-> 0]

NoDegradation ==
    [pDetectTrack_trial |-> 0, pkWarhead_trial |-> 0, pkDecoy_trial |-> 0,
     systemUp |-> FALSE]

\* engageTarget's locals before a call
EngagementIdle ==
    /\ alloc = 0 /\ cap = 0 /\ s = 0 /\ killed = FALSE /\ shotsFired = 0
    /\ canReengage = FALSE /\ hits = <<>> /\ res = NoOutcome

NoSummary ==
    [penReal |-> <<>>, intReal |-> <<>>, shotsTot |-> <<>>, fp |-> <<>>,
     summary |-> [realWarheads |-> Null,
                  meanPenReal |-> NaN, p10PenReal |-> NaN,
                  medianPenReal |-> NaN, p90PenReal |-> NaN,
                  meanIntReal |-> NaN, meanDetObjects |-> NaN,
                  meanDetReal |-> NaN, meanTP |-> NaN, meanFN |-> NaN,
                  meanFP |-> NaN, meanShotsTotal |-> NaN,
                  meanShotsWarheads |-> NaN, meanShotsDecoys |-> NaN,
                  meanInventoryRemaining |-> NaN, meanSystemUp |-> NaN,
                  meanPenRateReal |-> NaN]]

\* no call under way: every local at its blank value
Blank ==
    /\ targets = <<>> /\ realWarheads = 0
    /\ d = NoDegradation
    /\ inventory = 0
    /\ penetratedRealWarheads = 0 /\ interceptedRealWarheads = 0
    /\ detectedObjects = 0 /\ detectedRealWarheads = 0
    /\ truePositives = 0 /\ falseNegatives = 0 /\ falsePositives = 0
    /\ shotsTotal = 0 /\ shotsAtTrueWarheads = 0 /\ shotsAtDecoys = 0
    /\ idx = 1
    /\ detected = FALSE /\ classifiedAsWarhead = FALSE
    /\ EngagementIdle
    /\ r = NoResult
    /\ t = 0
    /\ penReal = <<>> /\ intReal = <<>> /\ detObj = <<>> /\ detReal = <<>>
    /\ tp = <<>> /\ fn = <<>> /\ fp = <<>>
    /\ shotsTot = <<>> /\ shotsW = <<>> /\ shotsD = <<>>
    /\ invLeft = <<>> /\ systemUpFlags = <<>>
    /\ realWarheadsConst = Null
    /\ mc = NoSummary

\* no call of percentile under way
NoPercentileCall == values = <<>> /\ percent = 0 /\ result = NaN

\* runOneTrial(params) is about to be called
Init ==
    /\ params \in Configs
    /\ pc = "gen"
    /\ Blank
    /\ NoPercentileCall

(* ----------------------------- runOneTrial ----------------------------- *)

\* const { targets, realWarheads } = generateTargets(params)
GenerateTargets ==
    /\ pc = "gen"
    /\ LET n == params.nMissiles * params.mirvsPerMissile
                    * (1 + params.decoysPerWarhead)
       IN  \E us \in [1..(n - 1) -> Uniforms] :
              LET g == generateTargets(params, us)
              IN  /\ targets' = g.targets
                  /\ realWarheads' = g.realWarheads
    /\ pc' = "degrade"
    /\ UNCHANGED percentileCall
    /\ UNCHANGED <<params, montecarlo, d, inventory, counters, idx, object, engagement, r>>

\* faulty variant of TrialInventory: a later trial goes on with what is left
TrialInventoryCarried(p, carried) == IF t = 0 THEN p.nInventory ELSE carried

\* let inventory = nInventory
TrialInventory(p, carried) == p.nInventory

\* the degradation draw, then the locals of the trial
StartTrial ==
    /\ pc = "degrade"
    /\ \E u \in Uniforms : d' = applyTrialDegradation(params, u)
    /\ inventory' = TrialInventory(params, inventory)
    /\ penetratedRealWarheads' = 0 /\ interceptedRealWarheads' = 0
    /\ detectedObjects' = 0 /\ detectedRealWarheads' = 0
    /\ truePositives' = 0 /\ falseNegatives' = 0 /\ falsePositives' = 0
    /\ shotsTotal' = 0 /\ shotsAtTrueWarheads' = 0 /\ shotsAtDecoys' = 0
    /\ idx' = 1
    /\ pc' = "loop"
    /\ UNCHANGED percentileCall
    /\ UNCHANGED <<params, montecarlo, population, object, engagement, r>>

\* faulty variant of Bump: the counter is increased whatever the test says
BumpAlways(b) == 1

\* counter += 1 under an if
Bump(b) == IF b THEN 1 ELSE 0

\* faulty variant of Increment: the loop variable is left where it was
IncrementStuck(i) == i

\* the step of a loop: s++ of both shot loops, the next target of the for-of
Increment(i) == i + 1

\* faulty variant of Engaged: every detected object is engaged
EngagedIfDetected(det, cls) == det

\* the object goes on to engageTarget: neither continue is taken
Engaged(det, cls) == det /\ cls

\* faulty variant of PenetratesUnengaged: the misclassified warhead is not counted
PenetratesUndetectedOnly(w, det, cls) == w /\ ~det

\* a real warhead that a continue records as penetrated
PenetratesUnengaged(w, det, cls) == w /\ (~det \/ ~cls)

\* faulty variant of TrialDegradationKept: the draw is made again for each object
TrialDegradationRedrawn == \E u \in Uniforms : d' = applyTrialDegradation(params, u)

\* the loop body reads the constants destructured before the loop and never
\* calls applyTrialDegradation again
TrialDegradationKept == d' = d

\* one object up to the decision to engage it: detection, classification
DetectClassify ==
    /\ pc = "loop"
    /\ idx <= Len(targets)
    /\ LET tgt == targets[idx]
           w == tgt.kind = "warhead"
       IN  \E u1, u2 \in Uniforms :
             LET det == bernoulli(d.pDetectTrack_trial, u1)
                 \* classifyTarget is called for a detected object only
                 cls == det /\ classifyTarget(tgt, params, u2)
             IN  /\ detected' = det
                 /\ classifiedAsWarhead' = cls
                 /\ detectedObjects' = detectedObjects + Bump(det)
                 /\ detectedRealWarheads' = detectedRealWarheads + Bump(det /\ w)
                 /\ truePositives' = truePositives + Bump(det /\ w /\ cls)
                 /\ falseNegatives' = falseNegatives + Bump(det /\ w /\ ~cls)
                 /\ falsePositives' = falsePositives + Bump(det /\ ~w /\ cls)
                 /\ penetratedRealWarheads' =
                        penetratedRealWarheads
                            + Bump(PenetratesUnengaged(w, det, cls))
                 /\ IF Engaged(det, cls) THEN pc' = "engage" /\ idx' = idx
                    ELSE pc' = "loop" /\ idx' = Increment(idx)
    /\ TrialDegradationKept
    /\ UNCHANGED percentileCall
    /\ UNCHANGED <<params, montecarlo, population, inventory, interceptedRealWarheads,
                   shots, engagement, r>>

\* engageTarget up to its first shot
EngageEntry ==
    /\ pc = "engage"
    /\ LET ep == engageParams(params, d)
       IN  IF inventory <= 0
           THEN /\ res' = NoShotOutcome(inventory)
                /\ pc' = "apply"
                /\ UNCHANGED <<alloc, cap>>
           ELSE IF ep.doctrineMode = "barrage"
           THEN /\ alloc' = BarrageAlloc(ep, inventory)
                /\ IF alloc' <= 0
                   THEN res' = NoShotOutcome(inventory) /\ pc' = "apply"
                   ELSE res' = res /\ pc' = "barrage"
                /\ UNCHANGED cap
           ELSE /\ cap' = SlsCap(ep, inventory)
                /\ IF cap' <= 0
                   THEN res' = SlsOutcome(FALSE, 0, inventory) /\ pc' = "apply"
                   ELSE res' = res /\ pc' = "sls"
                /\ UNCHANGED alloc
    /\ UNCHANGED percentileCall
    /\ UNCHANGED <<params, montecarlo, population, d, inventory, counters, idx, object,
                   s, killed, shotsFired, canReengage, hits, r>>

\* one iteration of the barrage loop, and the return when the loop ends
BarrageShot ==
    /\ pc = "barrage"
    /\ s < alloc
    /\ \E u \in Uniforms :
          LET hit == bernoulli(Pk(targets[idx], engageParams(params, d)), u)
              last == hit \/ ~(Increment(s) < alloc)
          IN  /\ hits' = Append(hits, hit)
              /\ killed' = IF hit THEN TRUE ELSE killed
              /\ s' = IF hit THEN s ELSE Increment(s)
              /\ IF last
                 THEN res' = BarrageOutcome(killed', alloc, inventory)
                      /\ pc' = "apply"
                 ELSE res' = res /\ pc' = "barrage"
    /\ UNCHANGED percentileCall
    /\ UNCHANGED <<params, montecarlo, population, d, inventory, counters, idx, object,
                   alloc, cap, shotsFired, canReengage, r>>

\* one iteration of the shoot-look-shoot loop, and the return when it ends
SlsShot ==
    /\ pc = "sls"
    /\ s < cap
    /\ shotsFired' = shotsFired + 1
    /\ \E u1, u2 \in Uniforms :
          LET ep == engageParams(params, d)
              hit == bernoulli(Pk(targets[idx], ep), u1)
              again == bernoulli(ep.pReengage, u2)
          IN  /\ hits' = Append(hits, hit)
              /\ IF hit
                 THEN /\ res' = SlsOutcome(TRUE, shotsFired', inventory)
                      /\ pc' = "apply"
                      /\ UNCHANGED <<s, canReengage>>
                 ELSE /\ canReengage' = again
                      /\ IF ~again
                         THEN /\ res' = SlsOutcome(FALSE, shotsFired', inventory)
                              /\ pc' = "apply"
                              /\ s' = s
                         ELSE /\ s' = Increment(s)
                              /\ IF s' < cap
                                 THEN res' = res /\ pc' = "sls"
                                 ELSE /\ res' = SlsOutcome(FALSE, shotsFired',
                                                          inventory)
                                      /\ pc' = "apply"
    /\ UNCHANGED percentileCall
    /\ UNCHANGED <<params, montecarlo, population, d, inventory, counters, idx, object,
                   alloc, cap, killed, r>>

\* faulty variant of ShotsAt: the shots are counted for both kinds
ShotsAtEither(ofKind, outcome) == outcome.shotsFired

\* the shots an engagement adds to the counter of a kind
ShotsAt(ofKind, outcome) == IF ofKind THEN outcome.shotsFired ELSE 0

\* faulty variant of InventoryAfter: the returned inventory is dropped
InventoryKept(outcome, inv) == inv

\* inventory = res.inventoryRemaining
InventoryAfter(outcome, inv) == outcome.inventoryRemaining

\* the rest of the loop body: the engagement's return applied to the trial
ApplyEngagement ==
    /\ pc = "apply"
    /\ LET w == targets[idx].kind = "warhead"
       IN  /\ inventory' = InventoryAfter(res, inventory)
           /\ shotsTotal' = shotsTotal + res.shotsFired
           /\ shotsAtTrueWarheads' =
                  shotsAtTrueWarheads + ShotsAt(w, res)
           /\ shotsAtDecoys' = shotsAtDecoys + ShotsAt(~w, res)
           /\ interceptedRealWarheads' =
                  interceptedRealWarheads + Bump(w /\ res.killed)
           /\ penetratedRealWarheads' =
                  penetratedRealWarheads + Bump(w /\ ~res.killed)
    /\ idx' = Increment(idx)
    /\ pc' = "loop"
    \* engageTarget's frame is gone
    /\ alloc' = 0 /\ cap' = 0 /\ s' = 0 /\ killed' = FALSE /\ shotsFired' = 0
    /\ canReengage' = FALSE /\ hits' = <<>> /\ res' = NoOutcome
    /\ UNCHANGED percentileCall
    /\ UNCHANGED <<params, montecarlo, population, d, detection, classification, object, r>>

TrialResult ==
    [realWarheads |-> realWarheads,
     penetratedRealWarheads |-> penetratedRealWarheads,
     interceptedRealWarheads |-> interceptedRealWarheads,
     detectedObjects |-> detectedObjects,
     detectedRealWarheads |-> detectedRealWarheads,
     truePositives |-> truePositives,
     falseNegatives |-> falseNegatives,
     falsePositives |-> falsePositives,
     shotsTotal |-> shotsTotal,
     shotsAtTrueWarheads |-> shotsAtTrueWarheads,
     shotsAtDecoys |-> shotsAtDecoys,
     inventoryRemaining |-> inventory,
     systemUp |-> d.systemUp]

\* the object loop is over: runOneTrial returns
ReturnTrial ==
    /\ pc = "loop"
    /\ idx > Len(targets)
    /\ r' = TrialResult
    /\ pc' = "done"
    /\ UNCHANGED percentileCall
    /\ UNCHANGED <<params, montecarlo, population, d, inventory, counters, idx, object,
                   engagement>>

Next ==
    \/ GenerateTargets
    \/ StartTrial
    \/ DetectClassify
    \/ EngageEntry
    \/ BarrageShot
    \/ SlsShot
    \/ ApplyEngagement
    \/ ReturnTrial

Spec == Init /\ [][Next]_vars

\* One warhead and one decoy, the full shot limits and inventory, and every
\* combination of the probabilities the degradation reads and of its factors;
\* the classifier's rates and the re-engagement probability are all 0.5 or all 1.
WideConfigs ==
    {[nMissiles |-> 1, mirvsPerMissile |-> 1, decoysPerWarhead |-> 1,
      pDetectTrack |-> pd, pClassifyWarhead |-> q, pFalseAlarmDecoy |-> q,
      doctrineMode |-> dm, shotsPerTarget |-> MaxShots,
      maxShotsPerTarget |-> MaxShots,
      pReengage |-> q, pkWarhead |-> pw, pkDecoy |-> pk,
      nInventory |-> MaxInventory, nTrials |-> 1,
      pSystemUp |-> up, detectDegradeFactor |-> fd, pkDegradeFactor |-> fk] :
        pd \in Probs, pw \in Probs, pk \in Probs, up \in Probs,
        fd \in Probs, fk \in Probs, q \in {50, One}, dm \in {"barrage", "sls"}}

InitWide ==
    /\ params \in WideConfigs
    /\ pc = "gen"
    /\ Blank
    /\ NoPercentileCall

SpecWide == InitWide /\ [][Next]_vars

(* ---------------------------- runMonteCarlo ---------------------------- *)

\* The configurations runMonteCarlo is explored on: those of Configs without
\* decoys whose classifier, kill and system-up probabilities are 1, so that a
\* trial's draws are its shuffle and its detections, and whose inventory is
\* empty or MaxInventory; each with every nTrials.
SureConfigs ==
    {c \in Configs :
        /\ c.decoysPerWarhead = 0
        /\ c.pClassifyWarhead = One
        /\ c.nInventory \in {0, MaxInventory}}

MCConfigs ==
    {[c EXCEPT !.nTrials = n] : c \in SureConfigs, n \in 1..MaxTrials}

\* runMonteCarlo(params) is about to be called
InitMC ==
    /\ params \in MCConfigs
    /\ pc = "mc"
    /\ Blank
    /\ NoPercentileCall

\* the loop test succeeds: const r = runOneTrial(params)
CallTrial ==
    /\ pc = "mc"
    /\ t < params.nTrials
    /\ pc' = "gen"
    /\ UNCHANGED percentileCall
    /\ UNCHANGED <<params, trial, montecarlo>>

\* the rest of the loop body, runOneTrial having returned r
Collect ==
    /\ pc = "done"
    /\ realWarheadsConst' =
           IF realWarheadsConst = Null THEN r.realWarheads ELSE realWarheadsConst
    /\ penReal' = Append(penReal, r.penetratedRealWarheads)
    /\ intReal' = Append(intReal, r.interceptedRealWarheads)
    /\ detObj' = Append(detObj, r.detectedObjects)
    /\ detReal' = Append(detReal, r.detectedRealWarheads)
    /\ tp' = Append(tp, r.truePositives)
    /\ fn' = Append(fn, r.falseNegatives)
    /\ fp' = Append(fp, r.falsePositives)
    /\ shotsTot' = Append(shotsTot, r.shotsTotal)
    /\ shotsW' = Append(shotsW, r.shotsAtTrueWarheads)
    /\ shotsD' = Append(shotsD, r.shotsAtDecoys)
    /\ invLeft' = Append(invLeft, r.inventoryRemaining)
    /\ systemUpFlags' = Append(systemUpFlags, IF r.systemUp THEN 1 ELSE 0)
    /\ t' = t + 1
    /\ pc' = "mc"
    /\ UNCHANGED percentileCall
    /\ UNCHANGED <<params, trial, mc>>

\* realWarheadsConst > 0 ? mean(penReal) / realWarheadsConst : 0
\* faulty variant of PenRate: the division is not guarded, 0 / 0 with no warhead
PenRateUnguarded(pen, rwc) == IF rwc = 0 THEN NaN ELSE Over(mean(pen), rwc)

\* realWarheadsConst > 0 ? mean(penReal) / realWarheadsConst : 0
PenRate(pen, rwc) == IF rwc > 0 THEN Over(mean(pen), rwc) ELSE Num(0, 1)

MonteCarloResult ==
    [penReal |-> penReal, intReal |-> intReal, shotsTot |-> shotsTot, fp |-> fp,
     summary |-> [realWarheads |-> realWarheadsConst,
                  meanPenReal |-> mean(penReal),
                  p10PenReal |-> percentile(penReal, 10),
                  medianPenReal |-> percentile(penReal, 50),
                  p90PenReal |-> percentile(penReal, 90),
                  meanIntReal |-> mean(intReal),
                  meanDetObjects |-> mean(detObj),
                  meanDetReal |-> mean(detReal),
                  meanTP |-> mean(tp),
                  meanFN |-> mean(fn),
                  meanFP |-> mean(fp),
                  meanShotsTotal |-> mean(shotsTot),
                  meanShotsWarheads |-> mean(shotsW),
                  meanShotsDecoys |-> mean(shotsD),
                  meanInventoryRemaining |-> mean(invLeft),
                  meanSystemUp |-> mean(systemUpFlags),
                  meanPenRateReal |-> PenRate(penReal, realWarheadsConst)]]

\* the loop test fails: the summary is computed and returned
Summarise ==
    /\ pc = "mc"
    /\ t >= params.nTrials
    /\ mc' = MonteCarloResult
    /\ pc' = "mc_done"
    /\ UNCHANGED percentileCall
    /\ UNCHANGED <<params, trial, t, series, realWarheadsConst>>

NextMC ==
    \/ CallTrial
    \/ GenerateTargets
    \/ StartTrial
    \/ DetectClassify
    \/ EngageEntry
    \/ BarrageShot
    \/ SlsShot
    \/ ApplyEngagement
    \/ ReturnTrial
    \/ Collect
    \/ Summarise

SpecMC == InitMC /\ [][NextMC]_vars

(* --------------------------- generateTargets --------------------------- *)

\* draws that reach every index j of a shuffle of up to five objects
Fifths == {0, 25, 50, 75, 99}

\* <<nMissiles, mirvsPerMissile, decoysPerWarhead>>: one missile's load, and the
\* whole population, within MaxSalvo objects
LoneSalvos ==
    {sv \in (0..MaxSalvo) \X (1..MaxSalvo) \X (0..MaxSalvo) :
        /\ sv[2] * (1 + sv[3]) <= MaxSalvo
        /\ sv[1] * sv[2] * (1 + sv[3]) <= MaxSalvo}

\* every such salvo; generateTargets reads no other parameter
SalvoConfigs ==
    {[nMissiles |-> sv[1], mirvsPerMissile |-> sv[2], decoysPerWarhead |-> sv[3],
      pDetectTrack |-> One, pClassifyWarhead |-> One, pFalseAlarmDecoy |-> 0,
      doctrineMode |-> "barrage", shotsPerTarget |-> 1, maxShotsPerTarget |-> 1,
      pReengage |-> One, pkWarhead |-> One, pkDecoy |-> One,
      nInventory |-> 0, nTrials |-> 1,
      pSystemUp |-> One, detectDegradeFactor |-> One, pkDegradeFactor |-> One] :
        sv \in LoneSalvos}

\* generateTargets(params) is about to be called
InitSalvo ==
    /\ params \in SalvoConfigs
    /\ pc = "salvo"
    /\ Blank
    /\ NoPercentileCall

\* the call returns the shuffled population and the warhead count
CallGenerateTargets ==
    /\ pc = "salvo"
    /\ LET n == params.nMissiles * params.mirvsPerMissile
                    * (1 + params.decoysPerWarhead)
       IN  \E us \in [1..(n - 1) -> Fifths] :
              LET g == generateTargets(params, us)
              IN  /\ targets' = g.targets
                  /\ realWarheads' = g.realWarheads
    /\ pc' = "salvo_done"
    /\ UNCHANGED percentileCall
    /\ UNCHANGED <<params, montecarlo, d, inventory, counters, idx, object, engagement, r>>

NextSalvo == CallGenerateTargets

SpecSalvo == InitSalvo /\ [][NextSalvo]_vars

(* ------------------------------ percentile ----------------------------- *)

\* the percentiles asked for: the three of the summary, and both ends
Percents == {0, 10, 50, 90, 100}

\* the arrays handed to percentile: counts, in any order
Arrays == UNION {[1..n -> 1..MaxLen] : n \in 0..MaxLen}

\* percentile reads no configuration
NoConfig == [nTrials |-> 0]

\* percentile(values, percent) is about to be called
InitPercentile ==
    /\ params = NoConfig
    /\ pc = "percentile"
    /\ Blank
    /\ values \in Arrays
    /\ percent \in Percents
    /\ result = NaN

\* the call returns; the sort was applied to the copy [...arr]
CallPercentile ==
    /\ pc = "percentile"
    /\ result' = percentile(values, percent)
    /\ pc' = "percentile_done"
    /\ UNCHANGED <<params, trial, montecarlo, values, percent>>

NextPercentile == CallPercentile

SpecPercentile == InitPercentile /\ [][NextPercentile]_vars

(* ------------------------------ properties ----------------------------- *)

InEngagement == pc \in {"engage", "barrage", "sls", "apply"}
Barrage == params.doctrineMode = "barrage"
Sls == params.doctrineMode = "sls"
SomeHit == \E i \in 1..Len(hits) : hits[i]
IsWarhead(i) == targets[i].kind = "warhead"

\* C1: the result runOneTrial returns has penetratedRealWarheads +
\* interceptedRealWarheads = realWarheads, and realWarheads is the number of
\* warhead objects of the trial's population.
C1_EveryWarheadHasOneFate ==
    pc = "done" =>
        /\ r.penetratedRealWarheads + r.interceptedRealWarheads = r.realWarheads
        /\ r.realWarheads = Cardinality({i \in 1..Len(targets) : IsWarhead(i)})

\* a trial with both fates: two warheads, one intercepted and one penetrated
C1_Witness ==
    /\ pc = "done"
    /\ r.realWarheads = 2
    /\ r.interceptedRealWarheads = 1
    /\ r.penetratedRealWarheads = 1

\* C2: within a trial the inventory is never negative and no step after the
\* trial's initialisation increases it.
C2_InventoryNonIncreasing ==
    /\ [](inventory >= 0)
    /\ [][pc # "degrade" => inventory' <= inventory]_vars

\* the inventory was drawn down to 0 by an earlier object and a later object is
\* about to be engaged
C2_Witness ==
    /\ pc = "engage"
    /\ idx > 1
    /\ params.nInventory > 0
    /\ inventory = 0

\* C3: a barrage engagement with allocation a = min(shotsPerTarget, inventory)
\* > 0 returns shotsFired = a and inventoryRemaining = inventory - a whatever
\* the draws were, and killed iff one of its draws succeeded; it makes at most
\* a draws and none after a success.
C3_BarrageChargesAllocation ==
    (pc = "apply" /\ Barrage /\ inventory > 0 /\ params.shotsPerTarget > 0) =>
        /\ alloc = Min(params.shotsPerTarget, inventory)
        /\ alloc > 0
        /\ res.shotsFired = alloc
        /\ res.inventoryRemaining = inventory - alloc
        /\ res.killed <=> SomeHit
        /\ Len(hits) >= 1 /\ Len(hits) <= alloc
        /\ \A i \in 1..(Len(hits) - 1) : ~hits[i]
        /\ ~res.killed => Len(hits) = alloc

\* the kill came on the first of two allocated shots, and both are charged
C3_Witness ==
    /\ pc = "apply" /\ Barrage
    /\ alloc = 2
    /\ hits = <<TRUE>>
    /\ res.killed
    /\ res.shotsFired = 2
    /\ res.inventoryRemaining = inventory - 2

\* C4: a shoot-look-shoot engagement fires at most min(maxShotsPerTarget,
\* inventory) shots, one kill draw per shot; while it goes on no draw has
\* succeeded, and when it returns killed the successful draw is the one of
\* shot number shotsFired.
C4_SlsStopsAtKill ==
    /\ (pc = "sls" /\ Sls) =>
          /\ ~SomeHit
          /\ shotsFired = Len(hits)
          /\ shotsFired < Min(params.maxShotsPerTarget, inventory)
    /\ (pc = "apply" /\ Sls) =>
          /\ res.shotsFired <= Min(params.maxShotsPerTarget, inventory)
          /\ res.shotsFired = Len(hits)
          /\ \A i \in 1..(Len(hits) - 1) : ~hits[i]
          /\ res.killed <=> SomeHit
          /\ res.killed => hits[res.shotsFired]

\* a kill on the second shot of a cap of two
C4_Witness ==
    /\ pc = "apply" /\ Sls
    /\ params.maxShotsPerTarget = 2
    /\ hits = <<FALSE, TRUE>>
    /\ res.killed
    /\ res.shotsFired = 2

\* a miss whose re-engagement draw failed
ReengageFailed ==
    /\ hits # <<>>
    /\ ~hits[Len(hits)]
    /\ ~canReengage

\* C5: a shoot-look-shoot engagement returns inventoryRemaining = inventory -
\* shotsFired, shotsFired being the shots taken, on every return; a failed
\* re-engagement draw ends it at once with killed = FALSE and the shots taken
\* charged.
C5_SlsChargesShotsTaken ==
    /\ (pc = "apply" /\ Sls) =>
          /\ res.shotsFired = Len(hits)
          /\ res.inventoryRemaining = inventory - res.shotsFired
          /\ ReengageFailed =>
                /\ ~res.killed
                /\ res.inventoryRemaining = inventory - Len(hits)
    /\ (pc = "sls" /\ Sls) => ~ReengageFailed

\* the first shot of a cap of two missed and the re-engagement draw failed: one
\* shot is charged
C5_Witness ==
    /\ pc = "apply" /\ Sls
    /\ cap = 2
    /\ hits = <<FALSE>>
    /\ ~canReengage
    /\ ~res.killed
    /\ res.shotsFired = 1
    /\ res.inventoryRemaining = inventory - 1

\* the step that processes an object without engaging it
Unengaged == pc = "loop" /\ idx <= Len(targets) /\ pc' = "loop"

\* C6: engageTarget runs only for an object detected and classified as
\* warhead-track; the step that processes any other object fires no shot,
\* leaves the inventory, the shot counters and the intercept counter unchanged
\* and counts the object as penetrated once iff it is a warhead.
C6_UnengagedObjectFrame ==
    /\ [](InEngagement => detected /\ classifiedAsWarhead)
    /\ [][(pc = "loop" /\ idx <= Len(targets)
              /\ ~(detected' /\ classifiedAsWarhead')) => Unengaged]_vars
    /\ [][Unengaged =>
            /\ ~(detected' /\ classifiedAsWarhead')
            /\ idx' = idx + 1
            /\ UNCHANGED <<inventory, shots, interceptedRealWarheads, engagement>>
            /\ penetratedRealWarheads' =
                   penetratedRealWarheads + Bump(IsWarhead(idx))]_vars

\* a warhead that was detected and not classified as warhead-track has been
\* counted as penetrated, with the inventory untouched
C6_Witness ==
    /\ pc = "loop"
    /\ idx = 2
    /\ IsWarhead(1)
    /\ detected /\ ~classifiedAsWarhead
    /\ penetratedRealWarheads = 1
    /\ inventory = params.nInventory /\ inventory > 0
    /\ shotsTotal = 0

\* C7: in every trial of a run realWarheads is nMissiles * mirvsPerMissile,
\* whatever was drawn; realWarheadsConst, taken from the first trial, equals
\* the realWarheads of every later trial and is the summary's realWarheads.
C7_RealWarheadsConstant ==
    LET product == params.nMissiles * params.mirvsPerMissile
    IN  /\ pc = "done" => r.realWarheads = product
        /\ (pc = "done" /\ t >= 1) => r.realWarheads = realWarheadsConst
        /\ t >= 1 => realWarheadsConst = product
        /\ pc = "mc_done" =>
              /\ t = params.nTrials
              /\ mc.summary.realWarheads = product

\* a run of two trials of 1 missile with 2 MIRVs whose draws differed: no
\* warhead penetrated in the first trial, both in the second
C7_Witness ==
    /\ pc = "mc_done"
    /\ params.nTrials = 2
    /\ params.nMissiles = 1 /\ params.mirvsPerMissile = 2
    /\ mc.penReal = <<0, 2>>
    /\ mc.summary.realWarheads = 2

\* C8: with detection probability 0 every trial returns detectedObjects = 0,
\* penetratedRealWarheads = realWarheads and no shot fired, system up or down.
C8_NoDetectionAllPenetrate ==
    (params.pDetectTrack = 0) =>
        /\ detectedObjects = 0 /\ shotsTotal = 0 /\ ~InEngagement
        /\ pc = "done" =>
              /\ r.detectedObjects = 0
              /\ r.penetratedRealWarheads = r.realWarheads
              /\ r.interceptedRealWarheads = 0
              /\ r.shotsTotal = 0

\* a trial of three warheads with detection probability 0 and the system down
C8_Witness ==
    /\ pc = "done"
    /\ params.pDetectTrack = 0
    /\ ~r.systemUp
    /\ r.realWarheads = 3
    /\ r.penetratedRealWarheads = 3

\* C9: with a configured inventory of 0 an engagement returns no shot and no
\* kill, and every trial returns shotsTotal = 0, interceptedRealWarheads = 0
\* and penetratedRealWarheads = realWarheads.
C9_NoInventoryAllPenetrate ==
    (params.nInventory = 0) =>
        /\ inventory = 0 /\ shotsTotal = 0 /\ interceptedRealWarheads = 0
        /\ pc = "apply" =>
              /\ ~res.killed /\ res.shotsFired = 0 /\ res.inventoryRemaining = 0
              /\ hits = <<>>
        /\ pc = "done" =>
              /\ r.shotsTotal = 0
              /\ r.interceptedRealWarheads = 0
              /\ r.penetratedRealWarheads = r.realWarheads

\* the stated scenario: one warhead, detection 1, true-positive rate 1,
\* inventory 0: classified as warhead-track and penetrated
C9_Witness ==
    /\ pc = "done"
    /\ params.nMissiles = 1 /\ params.mirvsPerMissile = 1
    /\ params.decoysPerWarhead = 0
    /\ params.pDetectTrack = One /\ params.pClassifyWarhead = One
    /\ params.nInventory = 0
    /\ r.truePositives = 1
    /\ r.penetratedRealWarheads = 1

\* the configurations of C10
PerfectBarrage ==
    /\ params.pDetectTrack = One /\ params.pClassifyWarhead = One
    /\ params.pkWarhead = One /\ params.pSystemUp = One
    /\ params.decoysPerWarhead = 0
    /\ Barrage /\ params.shotsPerTarget = 1
    /\ params.nInventory >= params.nMissiles * params.mirvsPerMissile

\* C10: detection 1, true-positive rate 1, kill probability against warheads 1,
\* system-up probability 1, no decoys, barrage of 1 shot per target, inventory
\* >= realWarheads: every trial returns penetratedRealWarheads = 0,
\* interceptedRealWarheads = realWarheads = nMissiles * mirvsPerMissile and
\* shotsTotal = realWarheads.
C10_PerfectDefence ==
    (PerfectBarrage /\ pc = "done") =>
        /\ r.realWarheads = params.nMissiles * params.mirvsPerMissile
        /\ r.penetratedRealWarheads = 0
        /\ r.interceptedRealWarheads = r.realWarheads
        /\ r.shotsTotal = r.realWarheads

\* the stated instance: 1 missile, 1 MIRV, inventory 1 gives 0 / 1 / 1
C10_Witness ==
    /\ PerfectBarrage /\ pc = "done"
    /\ params.nMissiles = 1 /\ params.mirvsPerMissile = 1
    /\ params.nInventory = 1
    /\ r.penetratedRealWarheads = 0
    /\ r.interceptedRealWarheads = 1
    /\ r.shotsTotal = 1


(* ------------------------------------------------------------------------
   C11: the system-up draw is made once per trial, before the first object:
   the step that leaves the position of the draw enters the loop at its first
   object, no other step of the trial changes the operative probabilities, and
   at every later position of the trial they are one outcome of
   applyTrialDegradation on the configuration.
   ------------------------------------------------------------------------ *)
AfterDegradation == pc \in {"loop", "engage", "barrage", "sls", "apply", "done"}

C11_OneDegradationDrawPerTrial ==
    /\ [](AfterDegradation =>
            \E u \in Uniforms : d = applyTrialDegradation(params, u))
    /\ [][pc = "degrade" => pc' = "loop" /\ idx' = 1]_vars
    /\ [][pc # "degrade" => d' = d]_vars

\* the third object of a trial is reached with the system down since the draw
C11_Witness ==
    /\ pc = "loop" /\ idx = 3 /\ Len(targets) >= 3
    /\ ~d.systemUp
    /\ d.pDetectTrack_trial = 25 /\ params.pDetectTrack = 50
    /\ detectedObjects >= 1


(* ------------------------------------------------------------------------
   C13: the returned penetration rate is a number; it is the mean of the
   per-trial penetrated counts divided by the real-warhead count when that
   count is positive and exactly 0 when it is 0; and a run on a configuration
   with no missile or no interceptor always has a next step until it returns.
   ------------------------------------------------------------------------ *)
ConfiguredWarheads == params.nMissiles * params.mirvsPerMissile

Degenerate == ConfiguredWarheads = 0 \/ params.nInventory = 0

C13_PenetrationRate ==
    /\ (Degenerate /\ pc # "mc_done") => ENABLED NextMC
    /\ pc = "mc_done" =>
          LET rate == mc.summary.meanPenRateReal
              rw == mc.summary.realWarheads
          IN  /\ rw = ConfiguredWarheads
              /\ ~rate.nan /\ rate.den > 0
              /\ rw = 0 => rate.num = 0
              /\ rw > 0 =>
                    rate.num * (Len(mc.penReal) * rw) = Sum(mc.penReal) * rate.den

\* a run of two trials with no missile has returned a rate of 0
C13_Witness ==
    /\ pc = "mc_done" /\ params.nMissiles = 0 /\ params.nTrials = 2
    /\ Len(mc.penReal) = 2
    /\ mc.summary.realWarheads = 0
    /\ mc.summary.meanPenRateReal = Num(0, 1)


(* ------------------------------------------------------------------------
   C14: percentile(values, percent) is the linear interpolation, at index
   percent / 100 * (n - 1), between the order statistics of values (the k-th
   is the entry with at most k entries below it and more than k entries not
   above it); the caller's array is as it was; percentile([1,2,3,4,5], 50)
   is 3, percentile([1,2], 100) is 2, and on the empty array it is NaN.
   ------------------------------------------------------------------------ *)
CountBelow(v) == Cardinality({i \in DOMAIN values : values[i] < v})

CountAtMost(v) == Cardinality({i \in DOMAIN values : values[i] <= v})

\* the k-th smallest entry of values, k from 0
OrderStatistic(k) ==
    CHOOSE v \in {values[i] : i \in DOMAIN values} :
        CountBelow(v) <= k /\ k < CountAtMost(v)

\* 100 times the interpolated value
Interpolated100 ==
    LET idx100 == percent * (Len(values) - 1)
        lo == idx100 \div 100
        frac == idx100 % 100
    IN  IF frac = 0 THEN 100 * OrderStatistic(lo)
        ELSE 100 * OrderStatistic(lo)
                + frac * (OrderStatistic(lo + 1) - OrderStatistic(lo))

PercentileReturned ==
    pc = "percentile_done" =>
        /\ values = <<>> => result = NaN
        /\ values # <<>> =>
              /\ ~result.nan /\ result.den > 0
              /\ result.num * 100 = Interpolated100 * result.den
        /\ (values = <<1, 2, 3, 4, 5>> /\ percent = 50) => result = Num(3, 1)
        /\ (values = <<1, 2>> /\ percent = 100) => result = Num(2, 1)

C14_PercentileInterpolates ==
    /\ []PercentileReturned
    /\ [][values' = values /\ percent' = percent]_vars

\* an unsorted array of five entries whose 10th percentile falls between ranks
C14_Witness ==
    /\ pc = "percentile_done"
    /\ values = <<5, 3, 1, 4, 2>> /\ percent = 10
    /\ result = Num(140, 100)


(* ------------------------------------------------------------------------
   C15: a trial always runs to its return. Every step of the trial lowers a
   non-negative measure made of the objects left, the shots left to the
   engagement under way and the position in the loop body, so no sequence of
   draws keeps a loop running; and a trial that has not returned always has a
   next step. The measure starts at (objects + 1) * (shot limit + 3) + 3.
   ------------------------------------------------------------------------ *)
ConfiguredObjects ==
    params.nMissiles * params.mirvsPerMissile * (1 + params.decoysPerWarhead)

\* more than the steps one object can take: the shots allowed, and three
PerObject == Max(params.shotsPerTarget, params.maxShotsPerTarget) + 3

ObjectsLeft == Len(targets) - idx

Variant ==
    CASE pc = "gen" -> (ConfiguredObjects + 1) * PerObject + 3
      [] pc = "degrade" -> Len(targets) * PerObject + 2
      [] pc = "loop" -> (ObjectsLeft + 1) * PerObject + 1
      [] pc = "engage" -> (ObjectsLeft + 1) * PerObject
      [] pc = "barrage" -> ObjectsLeft * PerObject + 2 + (alloc - s)
      [] pc = "sls" -> ObjectsLeft * PerObject + 2 + (cap - s)
      [] pc = "apply" -> ObjectsLeft * PerObject + 2
      [] OTHER -> 0

C15_TrialTerminates ==
    /\ [](Variant >= 0)
    /\ [](pc # "done" => ENABLED Next)
    /\ [](pc = "done" => Variant = 0)
    /\ [][Variant' < Variant]_vars

\* a trial over three objects has returned after a shoot-look-shoot engagement
\* that used its two shots
C15_Witness ==
    /\ pc = "done" /\ Len(targets) = 3
    /\ Sls /\ params.maxShotsPerTarget = 2
    /\ r.shotsTotal = 2 /\ r.interceptedRealWarheads = 0
    /\ r.detectedObjects = 3


(* ------------------------------------------------------------------------
   C16: the inventory an engagement is given is the configured inventory less
   the shots fired at the objects before it: from the first object on, the
   trial's inventory is nInventory - shotsTotal; an engagement's return
   reports its inventory less its shots; the return is what the trial keeps;
   and nothing else in the loop changes the inventory before the next
   engagement reads it.
   ------------------------------------------------------------------------ *)
InventoryThreaded ==
    /\ AfterDegradation => inventory = params.nInventory - shotsTotal
    /\ pc = "apply" => res.inventoryRemaining = inventory - res.shotsFired

C16_InventoryThreadedThroughEngagements ==
    /\ []InventoryThreaded
    /\ [][pc = "apply" =>
            /\ inventory' = res.inventoryRemaining
            /\ shotsTotal' = shotsTotal + res.shotsFired]_vars
    /\ [][(pc \in {"loop", "engage", "barrage", "sls"}) =>
            (inventory' = inventory /\ shotsTotal' = shotsTotal)]_vars

\* a later object is about to be engaged with the one interceptor an earlier
\* engagement left of two
C16_Witness ==
    /\ pc = "engage" /\ idx >= 2
    /\ params.nInventory = 2 /\ shotsTotal = 1 /\ inventory = 1


(* ------------------------------------------------------------------------
   C17: every trial of a run reaches its first object with the inventory at
   the configured size, every counter at 0 and no engagement under way,
   whatever the trials before it fired or counted.
   ------------------------------------------------------------------------ *)
AtFirstObject == pc = "loop" /\ idx = 1

C17_TrialsStartFresh ==
    AtFirstObject =>
        /\ inventory = params.nInventory
        /\ penetratedRealWarheads = 0 /\ interceptedRealWarheads = 0
        /\ detectedObjects = 0 /\ detectedRealWarheads = 0
        /\ truePositives = 0 /\ falseNegatives = 0 /\ falsePositives = 0
        /\ shotsTotal = 0 /\ shotsAtTrueWarheads = 0 /\ shotsAtDecoys = 0
        /\ EngagementIdle

\* the second trial starts with both interceptors after the first trial used
\* them and intercepted
C17_Witness ==
    /\ AtFirstObject /\ t = 1
    /\ params.nInventory = 2 /\ invLeft = <<0>> /\ shotsTot = <<2>>
    /\ intReal[1] >= 1
    /\ inventory = 2 /\ shotsTotal = 0


(* ------------------------------------------------------------------------
   C18: an engagement that cannot allocate a shot (no inventory, or a barrage
   of 0 shots per target, or shoot-look-shoot with at most 0 shots per
   target) returns not killed, 0 shots fired and the inventory it was given,
   and has made no kill draw; the shot loops are entered only with inventory
   and a positive limit.
   ------------------------------------------------------------------------ *)
CannotAllocate ==
    \/ inventory <= 0
    \/ Barrage /\ params.shotsPerTarget = 0
    \/ Sls /\ params.maxShotsPerTarget = 0

C18_NoShotEngagement ==
    /\ (pc = "apply" /\ CannotAllocate) =>
          /\ ~res.killed
          /\ res.shotsFired = 0
          /\ res.inventoryRemaining = inventory
          /\ hits = <<>>
    /\ pc \in {"barrage", "sls"} => ~CannotAllocate

\* a barrage of 0 shots per target has returned with both interceptors kept
C18_Witness ==
    /\ pc = "apply" /\ Barrage /\ params.shotsPerTarget = 0
    /\ inventory = 2 /\ res.inventoryRemaining = 2
    /\ ~res.killed /\ res.shotsFired = 0 /\ hits = <<>>


(* ------------------------------------------------------------------------
   C19: from the draw on, the trial's operative probabilities are the
   configured detection probability and the two configured kill probabilities
   when the system is up; when it is down each is the configured value times
   its factor (detectDegradeFactor for detection, pkDegradeFactor for both
   kill probabilities) and lies within [0, 1]. The parameters handed to
   engageTarget carry the operative kill probabilities and the configured
   classifier rates and re-engagement probability; with a classifier rate of 1
   no detected warhead is ever left unclassified and with a re-engagement
   probability of 1 no re-engagement draw fails, whatever the factors.
   ------------------------------------------------------------------------ *)
Degraded(x, configured, factor) ==
    /\ x * One = configured * factor
    /\ 0 <= x /\ x <= One

C19_DegradationApplied ==
    AfterDegradation =>
        /\ d.systemUp =>
              /\ d.pDetectTrack_trial = params.pDetectTrack
              /\ d.pkWarhead_trial = params.pkWarhead
              /\ d.pkDecoy_trial = params.pkDecoy
              /\ params.pSystemUp > 0
        /\ ~d.systemUp =>
              /\ Degraded(d.pDetectTrack_trial, params.pDetectTrack,
                          params.detectDegradeFactor)
              /\ Degraded(d.pkWarhead_trial, params.pkWarhead,
                          params.pkDegradeFactor)
              /\ Degraded(d.pkDecoy_trial, params.pkDecoy, params.pkDegradeFactor)
              /\ params.pSystemUp < One
        /\ LET ep == engageParams(params, d)
           IN  /\ ep.pkWarhead = d.pkWarhead_trial
               /\ ep.pkDecoy = d.pkDecoy_trial
               /\ ep.pClassifyWarhead = params.pClassifyWarhead
               /\ ep.pFalseAlarmDecoy = params.pFalseAlarmDecoy
               /\ ep.pReengage = params.pReengage
        /\ params.pClassifyWarhead = One => falseNegatives = 0
        /\ params.pReengage = One => ~(pc = "apply" /\ Sls /\ ReengageFailed)

\* the system is down with different factors: detection is halved, the kill
\* probabilities are kept, and the warhead has been detected and classified
C19_Witness ==
    /\ pc = "done" /\ ~d.systemUp
    /\ params.pDetectTrack = One /\ params.detectDegradeFactor = 50
    /\ params.pkWarhead = 50 /\ params.pkDecoy = One
    /\ params.pkDegradeFactor = One
    /\ params.pClassifyWarhead = One
    /\ d.pDetectTrack_trial = 50 /\ d.pkWarhead_trial = 50
    /\ d.pkDecoy_trial = One
    /\ truePositives = 1

(* ------------------------------------------------------------------------
   C20: the kill draws of an engagement use the operative kill probability of
   the engaged object's true kind: when that probability is 0 no draw of the
   engagement succeeds and when it is 1 every draw succeeds, for a warhead
   and for a decoy classified as a warhead alike; and in a trial whose
   operative kill probability against warheads is 0 no real warhead is
   intercepted, whatever the kill probability against decoys.
   ------------------------------------------------------------------------ *)
TruePk ==
    IF IsWarhead(idx) THEN d.pkWarhead_trial ELSE d.pkDecoy_trial

C20_KillDrawUsesTrueKind ==
    /\ pc \in {"barrage", "sls", "apply"} =>
          /\ TruePk = 0 => ~SomeHit /\ ~killed /\ ~res.killed
          /\ TruePk = One => \A i \in 1..Len(hits) : hits[i]
    /\ (AfterDegradation /\ d.pkWarhead_trial = 0) => interceptedRealWarheads = 0

\* a decoy classified as a warhead is killed by the first shot at kill
\* probability 1 against decoys, with kill probability 0 against warheads
C20_Witness ==
    /\ pc = "apply" /\ ~IsWarhead(idx) /\ classifiedAsWarhead
    /\ d.pkWarhead_trial = 0 /\ d.pkDecoy_trial = One
    /\ hits = <<TRUE>> /\ res.killed


(* ------------------------------------------------------------------------
   C21: generateTargets returns nMissiles * mirvsPerMissile objects of kind
   warhead and that many times decoysPerWarhead objects of kind decoy and no
   other object; the ids of each kind are the numbers from 0 up, each once;
   so the returned sequence is a permutation of the generated population,
   whatever the shuffle drew. realWarheads is the number of warheads.
   ------------------------------------------------------------------------ *)
OfKind(k) == {i \in DOMAIN targets : targets[i].kind = k}

Decoys == ConfiguredWarheads * params.decoysPerWarhead

Generated ==
    {[kind |-> "warhead", id |-> <<"warhead", n>>] : n \in 0..(ConfiguredWarheads - 1)}
        \cup {[kind |-> "decoy", id |-> <<"decoy", n>>] : n \in 0..(Decoys - 1)}

C21_ShuffledPopulation ==
    pc = "salvo_done" =>
        /\ realWarheads = ConfiguredWarheads
        /\ Cardinality(OfKind("warhead")) = ConfiguredWarheads
        /\ Cardinality(OfKind("decoy")) = Decoys
        /\ Len(targets) = ConfiguredWarheads + Decoys
        /\ \A i, j \in DOMAIN targets :
              (i # j /\ targets[i].kind = targets[j].kind)
                  => targets[i].id # targets[j].id
        /\ {targets[i] : i \in DOMAIN targets} = Generated

\* two warheads and two decoys returned with a decoy first, a warhead last and
\* the first warhead generated in neither of its two places
C21_Witness ==
    /\ pc = "salvo_done"
    /\ params.nMissiles = 2 /\ params.decoysPerWarhead = 1
    /\ Len(targets) = 4
    /\ targets[1].kind = "decoy" /\ targets[4].kind = "warhead"
    /\ targets[3] = [kind |-> "warhead", id |-> <<"warhead", 0>>]


(* ------------------------------------------------------------------------
   C22: from the first object to the return of a trial, the shots fired are
   the shots at true warheads plus the shots at decoys, and the shots fired
   plus the inventory are the configured inventory, so the shots never exceed
   it; the returned record says the same.
   ------------------------------------------------------------------------ *)
C22_ShotsConserved ==
    /\ AfterDegradation =>
          /\ shotsTotal = shotsAtTrueWarheads + shotsAtDecoys
          /\ shotsTotal + inventory = params.nInventory
          /\ shotsTotal <= params.nInventory
          /\ shotsAtTrueWarheads >= 0 /\ shotsAtDecoys >= 0
    /\ pc = "done" =>
          /\ r.shotsTotal = r.shotsAtTrueWarheads + r.shotsAtDecoys
          /\ r.shotsTotal + r.inventoryRemaining = params.nInventory
          /\ r.shotsTotal <= params.nInventory

\* a trial has returned with one shot at a warhead, one at a decoy and the
\* inventory of two used up
C22_Witness ==
    /\ pc = "done" /\ params.nInventory = 2
    /\ r.shotsAtTrueWarheads = 1 /\ r.shotsAtDecoys = 1
    /\ r.shotsTotal = 2 /\ r.inventoryRemaining = 0


(* ------------------------------------------------------------------------
   C23: from the first object to the return of a trial, the detected warheads
   are the true positives plus the false negatives and are at most the real
   warheads; the false positives are at most the detected decoys; the
   intercepted warheads are at most the true positives and at most the shots
   at true warheads; the returned record says the same; and the step over a
   decoy that is not detected changes no counter.
   ------------------------------------------------------------------------ *)
DiagnosticsConsistent ==
    /\ AfterDegradation =>
          /\ truePositives + falseNegatives = detectedRealWarheads
          /\ detectedRealWarheads <= realWarheads
          /\ falsePositives <= detectedObjects - detectedRealWarheads
          /\ interceptedRealWarheads <= truePositives
          /\ interceptedRealWarheads <= shotsAtTrueWarheads
    /\ pc = "done" =>
          /\ r.truePositives + r.falseNegatives = r.detectedRealWarheads
          /\ r.detectedRealWarheads <= r.realWarheads
          /\ r.falsePositives <= r.detectedObjects - r.detectedRealWarheads
          /\ r.interceptedRealWarheads <= r.truePositives
          /\ r.interceptedRealWarheads <= r.shotsAtTrueWarheads

UndetectedDecoy ==
    /\ pc = "loop" /\ idx <= Len(targets)
    /\ ~IsWarhead(idx)
    /\ ~detected'

C23_DiagnosticsConsistent ==
    /\ []DiagnosticsConsistent
    /\ [][UndetectedDecoy => UNCHANGED <<counters, inventory>>]_vars

\* a trial over a warhead and two decoys has returned: the warhead detected,
\* classified and intercepted, one decoy engaged by mistake, one never detected
C23_Witness ==
    /\ pc = "done" /\ Len(targets) = 3 /\ r.realWarheads = 1
    /\ r.detectedObjects = 2 /\ r.detectedRealWarheads = 1
    /\ r.truePositives = 1 /\ r.falseNegatives = 0 /\ r.falsePositives = 1
    /\ r.interceptedRealWarheads = 1 /\ r.shotsAtTrueWarheads = 1
    /\ ~detected

=============================================================================
